---------------------------- MODULE Spec2Model ----------------------------
(***************************************************************************)
(* A model of the lucky-blog utility scripts:                              *)
(*   - skills/twinify/scripts/parse_feishu_chat.py  (chat export parser)   *)
(*   - life/projects/decision-logging/log-decision.py                      *)
(*   - life/projects/pattern-extraction/weekly_pattern_extractor.py        *)
(*   - scripts/fetch_feishu_chat.py                                        *)
(*   - skills/notebooklm/scripts/local_analyzer.py and quick_query.py      *)
(*                                                                         *)
(* Strings are sequences of one-character strings, so that the regular     *)
(* expressions and string methods of the source are modelled by what they  *)
(* do to the characters.  A character that a string of the model cannot    *)
(* hold is written as its code point, "U+00A0".  An Optional value is None *)
(* (the empty tuple) or Some(v) (the one-element tuple holding v).         *)
(*                                                                         *)
(* The scripts are independent programs; each has its own specification    *)
(* (SpecParse, SpecMain, SpecDecision, SpecPatterns, SpecFetch,           *)
(* SpecLaunch) over its own variables, the other scripts' variables        *)
(* staying at their initial values.                                        *)
(***************************************************************************)
EXTENDS Naturals, Integers, Sequences, FiniteSets, TLC

VARIABLES
    \* ---- parse_chat (parse_feishu_chat.py:15-92)
    pc,              \* "idle" | "reading" (inside the for loop) | "done" (returned)
    target_name,     \* the target_name argument
    input,           \* the lines read from the file so far (after rstrip('\n'))
    messages, target_msgs, other_msgs,
    current_date, current_time, current_sender, current_text,
    \* ---- the script parse_feishu_chat.py, run twice (on two exports)
    m_export,        \* run -> the lines of the chat export file
    m_target,        \* the target_name argument of both runs
    m_run,           \* run -> [pc, exit_status, error, stats, output]
    \* ---- create_decision (log-decision.py:16-65)
    d_clock,         \* datetime.now(), in ticks
    d_index,         \* index.json: None (absent) or Some(its content)
    d_files,         \* the dec-*.json files: decision id -> content
    d_log,           \* per finished call: the title given, the id returned, created_at
    \* ---- extract_patterns (weekly_pattern_extractor.py:16-64)
    p_pc,            \* "idle" | "start" | "listing" | "done"
    p_dir,           \* the entries of MEMORY_DIR: records [name, kind]
    p_now,           \* datetime.now() of line 21: [day, tod]
    p_days,          \* the days argument
    p_todo,          \* the entries os.listdir has yet to yield
    all_content,     \* the contents read so far (each file's content is its name)
    p_report,        \* None, or Some(the report written)
    \* ---- fetch_feishu_chat.py main (lines 86-133)
    f_pc,            \* where main is
    f_argv,          \* sys.argv
    f_out,           \* [usage, exit_status, error, written]
    f_requests,      \* the HTTP requests made so far, each with its answer
    f_locals,        \* main: [token, chat_id]
    f_params_token,  \* get_messages: params.get("page_token")
    f_page_token,    \* get_messages: page_token
    f_messages,      \* get_messages: messages
    \* ---- the notebooklm scripts local_analyzer.py and quick_query.py
    n_cmdline,       \* the command the user runs: [script, argv]
    n_files,         \* the files that exist
    n_stack,         \* the running scripts, the innermost last
    n_launches,      \* the subprocess.run calls made so far: [script, argv, by]
    n_exits          \* the scripts that have ended: [script, status]

parseVars == <<pc, target_name, input, messages, target_msgs, other_msgs,
               current_date, current_time, current_sender, current_text>>

mainVars == <<m_export, m_target, m_run>>
decisionVars == <<d_clock, d_index, d_files, d_log>>
patternVars == <<p_pc, p_dir, p_now, p_days, p_todo, all_content, p_report>>
fetchVars == <<f_pc, f_argv, f_out, f_requests, f_locals, f_params_token,
               f_page_token, f_messages>>

launchVars == <<n_cmdline, n_files, n_stack, n_launches, n_exits>>

vars == <<parseVars, mainVars, decisionVars, patternVars, fetchVars, launchVars>>

(***************************************************************************)
(* Optional values and characters                                          *)
(***************************************************************************)
None == <<>>
Some(v) == <<v>>

\* A script that is not run in a specification stays idle.
ParseIdle ==
    /\ pc = "idle" /\ target_name = <<>> /\ input = <<>>
    /\ messages = <<>> /\ target_msgs = <<>> /\ other_msgs = <<>>
    /\ current_date = None /\ current_time = None
    /\ current_sender = None /\ current_text = None
MainIdle == m_export = <<>> /\ m_target = <<>> /\ m_run = <<>>
DecisionIdle == d_clock = 0 /\ d_index = None /\ d_files = <<>> /\ d_log = <<>>
PatternIdle ==
    /\ p_pc = "idle" /\ p_dir = {} /\ p_now = <<>> /\ p_days = 0
    /\ p_todo = {} /\ all_content = <<>> /\ p_report = None
FetchIdle ==
    /\ f_pc = "idle" /\ f_argv = <<>> /\ f_out = <<>>
    /\ f_requests = <<>> /\ f_locals = <<>> /\ f_params_token = None
    /\ f_page_token = None /\ f_messages = <<>>
LaunchIdle ==
    /\ n_cmdline = <<>> /\ n_files = {} /\ n_stack = <<>>
    /\ n_launches = <<>> /\ n_exits = <<>>

\* Python truthiness of an Optional[str]: None and "" are false, and so is
\* the empty list.
Truthy(o) == o # None /\ o[1] # <<>>

\* The characters 0-9, as in the classes [0-9] and [1-9].
AsciiDigits == {"0", "1", "2", "3", "4", "5", "6", "7", "8", "9"}

\* The decimal digits of Unicode (category Nd, 660 characters in 66 runs of
\* ten), by the value int() gives them: the digits of value 0, of value 1,
\* and so on to 9.
DigitsOfValue ==
  <<
     {"0", "U+0660", "U+06F0", "U+07C0", "U+0966", "U+09E6", "U+0A66",
      "U+0AE6", "U+0B66", "U+0BE6", "U+0C66", "U+0CE6", "U+0D66", "U+0DE6",
      "U+0E50", "U+0ED0", "U+0F20", "U+1040", "U+1090", "U+17E0", "U+1810",
      "U+1946", "U+19D0", "U+1A80", "U+1A90", "U+1B50", "U+1BB0", "U+1C40",
      "U+1C50", "U+A620", "U+A8D0", "U+A900", "U+A9D0", "U+A9F0", "U+AA50",
      "U+ABF0", "U+FF10", "U+104A0", "U+10D30", "U+11066", "U+110F0",
      "U+11136", "U+111D0", "U+112F0", "U+11450", "U+114D0", "U+11650",
      "U+116C0", "U+11730", "U+118E0", "U+11950", "U+11C50", "U+11D50",
      "U+11DA0", "U+16A60", "U+16AC0", "U+16B50", "U+1D7CE", "U+1D7D8",
      "U+1D7E2", "U+1D7EC", "U+1D7F6", "U+1E140", "U+1E2F0", "U+1E950",
      "U+1FBF0"},
     {"1", "U+0661", "U+06F1", "U+07C1", "U+0967", "U+09E7", "U+0A67",
      "U+0AE7", "U+0B67", "U+0BE7", "U+0C67", "U+0CE7", "U+0D67", "U+0DE7",
      "U+0E51", "U+0ED1", "U+0F21", "U+1041", "U+1091", "U+17E1", "U+1811",
      "U+1947", "U+19D1", "U+1A81", "U+1A91", "U+1B51", "U+1BB1", "U+1C41",
      "U+1C51", "U+A621", "U+A8D1", "U+A901", "U+A9D1", "U+A9F1", "U+AA51",
      "U+ABF1", "U+FF11", "U+104A1", "U+10D31", "U+11067", "U+110F1",
      "U+11137", "U+111D1", "U+112F1", "U+11451", "U+114D1", "U+11651",
      "U+116C1", "U+11731", "U+118E1", "U+11951", "U+11C51", "U+11D51",
      "U+11DA1", "U+16A61", "U+16AC1", "U+16B51", "U+1D7CF", "U+1D7D9",
      "U+1D7E3", "U+1D7ED", "U+1D7F7", "U+1E141", "U+1E2F1", "U+1E951",
      "U+1FBF1"},
     {"2", "U+0662", "U+06F2", "U+07C2", "U+0968", "U+09E8", "U+0A68",
      "U+0AE8", "U+0B68", "U+0BE8", "U+0C68", "U+0CE8", "U+0D68", "U+0DE8",
      "U+0E52", "U+0ED2", "U+0F22", "U+1042", "U+1092", "U+17E2", "U+1812",
      "U+1948", "U+19D2", "U+1A82", "U+1A92", "U+1B52", "U+1BB2", "U+1C42",
      "U+1C52", "U+A622", "U+A8D2", "U+A902", "U+A9D2", "U+A9F2", "U+AA52",
      "U+ABF2", "U+FF12", "U+104A2", "U+10D32", "U+11068", "U+110F2",
      "U+11138", "U+111D2", "U+112F2", "U+11452", "U+114D2", "U+11652",
      "U+116C2", "U+11732", "U+118E2", "U+11952", "U+11C52", "U+11D52",
      "U+11DA2", "U+16A62", "U+16AC2", "U+16B52", "U+1D7D0", "U+1D7DA",
      "U+1D7E4", "U+1D7EE", "U+1D7F8", "U+1E142", "U+1E2F2", "U+1E952",
      "U+1FBF2"},
     {"3", "U+0663", "U+06F3", "U+07C3", "U+0969", "U+09E9", "U+0A69",
      "U+0AE9", "U+0B69", "U+0BE9", "U+0C69", "U+0CE9", "U+0D69", "U+0DE9",
      "U+0E53", "U+0ED3", "U+0F23", "U+1043", "U+1093", "U+17E3", "U+1813",
      "U+1949", "U+19D3", "U+1A83", "U+1A93", "U+1B53", "U+1BB3", "U+1C43",
      "U+1C53", "U+A623", "U+A8D3", "U+A903", "U+A9D3", "U+A9F3", "U+AA53",
      "U+ABF3", "U+FF13", "U+104A3", "U+10D33", "U+11069", "U+110F3",
      "U+11139", "U+111D3", "U+112F3", "U+11453", "U+114D3", "U+11653",
      "U+116C3", "U+11733", "U+118E3", "U+11953", "U+11C53", "U+11D53",
      "U+11DA3", "U+16A63", "U+16AC3", "U+16B53", "U+1D7D1", "U+1D7DB",
      "U+1D7E5", "U+1D7EF", "U+1D7F9", "U+1E143", "U+1E2F3", "U+1E953",
      "U+1FBF3"},
     {"4", "U+0664", "U+06F4", "U+07C4", "U+096A", "U+09EA", "U+0A6A",
      "U+0AEA", "U+0B6A", "U+0BEA", "U+0C6A", "U+0CEA", "U+0D6A", "U+0DEA",
      "U+0E54", "U+0ED4", "U+0F24", "U+1044", "U+1094", "U+17E4", "U+1814",
      "U+194A", "U+19D4", "U+1A84", "U+1A94", "U+1B54", "U+1BB4", "U+1C44",
      "U+1C54", "U+A624", "U+A8D4", "U+A904", "U+A9D4", "U+A9F4", "U+AA54",
      "U+ABF4", "U+FF14", "U+104A4", "U+10D34", "U+1106A", "U+110F4",
      "U+1113A", "U+111D4", "U+112F4", "U+11454", "U+114D4", "U+11654",
      "U+116C4", "U+11734", "U+118E4", "U+11954", "U+11C54", "U+11D54",
      "U+11DA4", "U+16A64", "U+16AC4", "U+16B54", "U+1D7D2", "U+1D7DC",
      "U+1D7E6", "U+1D7F0", "U+1D7FA", "U+1E144", "U+1E2F4", "U+1E954",
      "U+1FBF4"},
     {"5", "U+0665", "U+06F5", "U+07C5", "U+096B", "U+09EB", "U+0A6B",
      "U+0AEB", "U+0B6B", "U+0BEB", "U+0C6B", "U+0CEB", "U+0D6B", "U+0DEB",
      "U+0E55", "U+0ED5", "U+0F25", "U+1045", "U+1095", "U+17E5", "U+1815",
      "U+194B", "U+19D5", "U+1A85", "U+1A95", "U+1B55", "U+1BB5", "U+1C45",
      "U+1C55", "U+A625", "U+A8D5", "U+A905", "U+A9D5", "U+A9F5", "U+AA55",
      "U+ABF5", "U+FF15", "U+104A5", "U+10D35", "U+1106B", "U+110F5",
      "U+1113B", "U+111D5", "U+112F5", "U+11455", "U+114D5", "U+11655",
      "U+116C5", "U+11735", "U+118E5", "U+11955", "U+11C55", "U+11D55",
      "U+11DA5", "U+16A65", "U+16AC5", "U+16B55", "U+1D7D3", "U+1D7DD",
      "U+1D7E7", "U+1D7F1", "U+1D7FB", "U+1E145", "U+1E2F5", "U+1E955",
      "U+1FBF5"},
     {"6", "U+0666", "U+06F6", "U+07C6", "U+096C", "U+09EC", "U+0A6C",
      "U+0AEC", "U+0B6C", "U+0BEC", "U+0C6C", "U+0CEC", "U+0D6C", "U+0DEC",
      "U+0E56", "U+0ED6", "U+0F26", "U+1046", "U+1096", "U+17E6", "U+1816",
      "U+194C", "U+19D6", "U+1A86", "U+1A96", "U+1B56", "U+1BB6", "U+1C46",
      "U+1C56", "U+A626", "U+A8D6", "U+A906", "U+A9D6", "U+A9F6", "U+AA56",
      "U+ABF6", "U+FF16", "U+104A6", "U+10D36", "U+1106C", "U+110F6",
      "U+1113C", "U+111D6", "U+112F6", "U+11456", "U+114D6", "U+11656",
      "U+116C6", "U+11736", "U+118E6", "U+11956", "U+11C56", "U+11D56",
      "U+11DA6", "U+16A66", "U+16AC6", "U+16B56", "U+1D7D4", "U+1D7DE",
      "U+1D7E8", "U+1D7F2", "U+1D7FC", "U+1E146", "U+1E2F6", "U+1E956",
      "U+1FBF6"},
     {"7", "U+0667", "U+06F7", "U+07C7", "U+096D", "U+09ED", "U+0A6D",
      "U+0AED", "U+0B6D", "U+0BED", "U+0C6D", "U+0CED", "U+0D6D", "U+0DED",
      "U+0E57", "U+0ED7", "U+0F27", "U+1047", "U+1097", "U+17E7", "U+1817",
      "U+194D", "U+19D7", "U+1A87", "U+1A97", "U+1B57", "U+1BB7", "U+1C47",
      "U+1C57", "U+A627", "U+A8D7", "U+A907", "U+A9D7", "U+A9F7", "U+AA57",
      "U+ABF7", "U+FF17", "U+104A7", "U+10D37", "U+1106D", "U+110F7",
      "U+1113D", "U+111D7", "U+112F7", "U+11457", "U+114D7", "U+11657",
      "U+116C7", "U+11737", "U+118E7", "U+11957", "U+11C57", "U+11D57",
      "U+11DA7", "U+16A67", "U+16AC7", "U+16B57", "U+1D7D5", "U+1D7DF",
      "U+1D7E9", "U+1D7F3", "U+1D7FD", "U+1E147", "U+1E2F7", "U+1E957",
      "U+1FBF7"},
     {"8", "U+0668", "U+06F8", "U+07C8", "U+096E", "U+09EE", "U+0A6E",
      "U+0AEE", "U+0B6E", "U+0BEE", "U+0C6E", "U+0CEE", "U+0D6E", "U+0DEE",
      "U+0E58", "U+0ED8", "U+0F28", "U+1048", "U+1098", "U+17E8", "U+1818",
      "U+194E", "U+19D8", "U+1A88", "U+1A98", "U+1B58", "U+1BB8", "U+1C48",
      "U+1C58", "U+A628", "U+A8D8", "U+A908", "U+A9D8", "U+A9F8", "U+AA58",
      "U+ABF8", "U+FF18", "U+104A8", "U+10D38", "U+1106E", "U+110F8",
      "U+1113E", "U+111D8", "U+112F8", "U+11458", "U+114D8", "U+11658",
      "U+116C8", "U+11738", "U+118E8", "U+11958", "U+11C58", "U+11D58",
      "U+11DA8", "U+16A68", "U+16AC8", "U+16B58", "U+1D7D6", "U+1D7E0",
      "U+1D7EA", "U+1D7F4", "U+1D7FE", "U+1E148", "U+1E2F8", "U+1E958",
      "U+1FBF8"},
     {"9", "U+0669", "U+06F9", "U+07C9", "U+096F", "U+09EF", "U+0A6F",
      "U+0AEF", "U+0B6F", "U+0BEF", "U+0C6F", "U+0CEF", "U+0D6F", "U+0DEF",
      "U+0E59", "U+0ED9", "U+0F29", "U+1049", "U+1099", "U+17E9", "U+1819",
      "U+194F", "U+19D9", "U+1A89", "U+1A99", "U+1B59", "U+1BB9", "U+1C49",
      "U+1C59", "U+A629", "U+A8D9", "U+A909", "U+A9D9", "U+A9F9", "U+AA59",
      "U+ABF9", "U+FF19", "U+104A9", "U+10D39", "U+1106F", "U+110F9",
      "U+1113F", "U+111D9", "U+112F9", "U+11459", "U+114D9", "U+11659",
      "U+116C9", "U+11739", "U+118E9", "U+11959", "U+11C59", "U+11D59",
      "U+11DA9", "U+16A69", "U+16AC9", "U+16B59", "U+1D7D7", "U+1D7E1",
      "U+1D7EB", "U+1D7F5", "U+1D7FF", "U+1E149", "U+1E2F9", "U+1E959",
      "U+1FBF9"}
  >>

\* The regular expressions' \d on str: every decimal digit of Unicode.
Digits == UNION {DigitsOfValue[v + 1] : v \in 0..9}
IsDigit(c) == c \in Digits

\* str.strip(), str.isspace() and the regular expressions' \s on str: the
\* white space of Unicode.
WhiteSpace ==
    {" ", "\t", "\n", "\r", "\f", "U+000B", "U+001C", "U+001D", "U+001E", "U+001F",
     "U+0085", "U+00A0", "U+1680", "U+2000", "U+2001", "U+2002", "U+2003",
     "U+2004", "U+2005", "U+2006", "U+2007", "U+2008", "U+2009", "U+200A",
     "U+2028", "U+2029", "U+202F", "U+205F", "U+3000"}
IsSpace(c) == c \in WhiteSpace

AllDigits(s) == \A i \in 1..Len(s) : IsDigit(s[i])
AllSpace(s) == \A i \in 1..Len(s) : IsSpace(s[i])

\* not line.strip()
IsBlank(line) == AllSpace(line)

(***************************************************************************)
(* DATE_PATTERN: four digits, '-' or '/', two digits, '-' or '/', two      *)
(* digits (group 1), one or more whitespace characters, then dd:dd:dd      *)
(* (group 2) up to the end of the line.                                    *)
(***************************************************************************)
IsDateText(s) ==
    /\ Len(s) = 10
    /\ AllDigits(SubSeq(s, 1, 4))
    /\ s[5] \in {"-", "/"}
    /\ AllDigits(SubSeq(s, 6, 7))
    /\ s[8] \in {"-", "/"}
    /\ AllDigits(SubSeq(s, 9, 10))

IsTimeText(s) ==
    /\ Len(s) = 8
    /\ AllDigits(SubSeq(s, 1, 2))
    /\ s[3] = ":"
    /\ AllDigits(SubSeq(s, 4, 5))
    /\ s[6] = ":"
    /\ AllDigits(SubSeq(s, 7, 8))

\* DATE_PATTERN.match(line) is not None
DateMatches(line) ==
    /\ Len(line) >= 19
    /\ IsDateText(SubSeq(line, 1, 10))
    /\ IsTimeText(SubSeq(line, Len(line) - 7, Len(line)))
    /\ AllSpace(SubSeq(line, 11, Len(line) - 8))

\* date_match.groups()
DateGroups(line) ==
    [date |-> SubSeq(line, 1, 10), time |-> SubSeq(line, Len(line) - 7, Len(line))]

(***************************************************************************)
(* SENDER_PATTERN: a lazy group 1 of one or more characters, ':', any      *)
(* whitespace, and group 2, the rest of the line.  The lazy group 1 ends   *)
(* before the first ':' that is not the line's first character; the        *)
(* whitespace that follows the ':' is not part of group 2.                 *)
(***************************************************************************)
ColonPositions(line) == {k \in 2..Len(line) : line[k] = ":"}

\* SENDER_PATTERN.match(line) is not None
SenderMatches(line) == ColonPositions(line) # {}

FirstColon(line) == CHOOSE k \in ColonPositions(line) :
                        \A j \in ColonPositions(line) : k <= j

RECURSIVE LStrip(_)
LStrip(s) == IF s # <<>> /\ IsSpace(Head(s)) THEN LStrip(Tail(s)) ELSE s

\* sender_match.groups()
SenderGroups(line) ==
    [sender |-> SubSeq(line, 1, FirstColon(line) - 1),
     text   |-> LStrip(SubSeq(line, FirstColon(line) + 1, Len(line)))]

(***************************************************************************)
(* parse_chat: the parser state as a record, and the loop body             *)
(***************************************************************************)
ParserInit ==
    [messages |-> <<>>, target_msgs |-> <<>>, other_msgs |-> <<>>,
     current_date |-> None, current_time |-> None,
     current_sender |-> None, current_text |-> None]

\* The record built at lines 38-43, 61-66 and 80-85.
Msg(st) ==
    [date |-> st.current_date[1], time |-> st.current_time[1],
     sender |-> st.current_sender[1], text |-> st.current_text[1]]

\* A variant of AppendMsg that files every record under other_msgs as well.
AppendMsg_AlsoOther(st, target) ==
    [st EXCEPT !.messages = Append(@, Msg(st)),
               !.target_msgs = IF st.current_sender[1] = target
                               THEN Append(@, Msg(st)) ELSE @,
               !.other_msgs = Append(@, Msg(st))]

\* messages.append(msg), then target_msgs or other_msgs (lines 44-48, 67-71, 86-90).
AppendMsg(st, target) ==
    [st EXCEPT !.messages = Append(@, Msg(st)),
               !.target_msgs = IF st.current_sender[1] = target
                               THEN Append(@, Msg(st)) ELSE @,
               !.other_msgs = IF st.current_sender[1] = target
                              THEN @ ELSE Append(@, Msg(st))]

\* "Save previous message if exists": if current_sender and current_text is not None
Flush(st, target) ==
    IF Truthy(st.current_sender) /\ st.current_text # None
    THEN AppendMsg(st, target)
    ELSE st

\* A variant of OnDateLine that takes the new date and time before it flushes.
OnDateLine_FlushAfter(st, line, target) ==
    [Flush([st EXCEPT !.current_date = Some(DateGroups(line).date),
                      !.current_time = Some(DateGroups(line).time)], target)
     EXCEPT !.current_sender = None, !.current_text = None]

\* Lines 35-53: a date/time line.
OnDateLine(st, line, target) ==
    [Flush(st, target) EXCEPT
        !.current_date = Some(DateGroups(line).date),
        !.current_time = Some(DateGroups(line).time),
        !.current_sender = None,
        !.current_text = None]

\* Lines 58-73: a "sender: message" line.
OnSenderLine(st, line, target) ==
    [Flush(st, target) EXCEPT
        !.current_sender = Some(SenderGroups(line).sender),
        !.current_text = Some(SenderGroups(line).text)]

\* A variant of OnContinuation that appends the line without the newline.
OnContinuation_NoNewline(st, line) ==
    [st EXCEPT !.current_text = Some(@[1] \o line)]

\* Lines 74-76: continuation of the previous message.
OnContinuation(st, line) ==
    [st EXCEPT !.current_text = Some(@[1] \o <<"\n">> \o line)]

\* A variant of LoopBody without the "Skip empty lines" test of lines 29-31.
LoopBody_NoBlankSkip(st, line, target) ==
    IF DateMatches(line) THEN OnDateLine(st, line, target)
    ELSE IF Truthy(st.current_date) /\ Truthy(st.current_time)
         THEN IF SenderMatches(line) THEN OnSenderLine(st, line, target)
              ELSE IF Truthy(st.current_sender) THEN OnContinuation(st, line)
              ELSE st
    ELSE st

\* Lines 27-76: one iteration of the for loop.
LoopBody(st, line, target) ==
    IF IsBlank(line) THEN st
    ELSE IF DateMatches(line) THEN OnDateLine(st, line, target)
    ELSE IF Truthy(st.current_date) /\ Truthy(st.current_time)
         THEN IF SenderMatches(line) THEN OnSenderLine(st, line, target)
              ELSE IF Truthy(st.current_sender) THEN OnContinuation(st, line)
              ELSE st
    ELSE st

\* A variant of AtEndOfInput that forgets the last message.
AtEndOfInput_NoFlush(st, target) == st

\* Lines 78-90: "Don't forget the last message".
AtEndOfInput(st, target) == Flush(st, target)

RECURSIVE ParseLines(_, _, _)
ParseLines(st, lines, target) ==
    IF lines = <<>> THEN st
    ELSE ParseLines(LoopBody(st, Head(lines), target), Tail(lines), target)

\* parse_chat(filepath, target_name), the file given as its lines.
ParseChat(lines, target) == AtEndOfInput(ParseLines(ParserInit, lines, target), target)

(***************************************************************************)
(* The inputs of the parser                                                *)
(***************************************************************************)
MaxLines == 4

DateA == <<"2","0","2","4","-","0","1","-","0","2"," ","0","3",":","0","4",":","0","5">>
\* A header with '/', the year in FULLWIDTH digits, and two whitespace
\* characters, a no-break space and a tab.
DateB == <<"U+FF12","U+FF10","U+FF12","U+FF14","/","0","1","/","0","3","U+00A0","\t","1","0",":","2","0",":","3","0">>
\* DateA with a trailing blank: not a date header, but a sender line.
NotDate == DateA \o <<" ">>

LineSet ==
    { DateA, DateB, NotDate,
      <<"\f", "U+3000">>,            \* a whitespace-only line (form feed, ideographic space)
      <<"a", ":", " ", "x">>,        \* a: x
      <<"b", ":", "y">>,             \* b:y
      <<"a", ":">>,                  \* a:        (empty text)
      <<"x">>,                       \* x         (no colon)
      <<":", "x">> }                 \* :x        (colon first: no sender)

TargetNames == { <<"a">>, <<"b">> }

(***************************************************************************)
(* parse_chat as a state machine: one step per line read                   *)
(***************************************************************************)
ParserState ==
    [messages |-> messages, target_msgs |-> target_msgs, other_msgs |-> other_msgs,
     current_date |-> current_date, current_time |-> current_time,
     current_sender |-> current_sender, current_text |-> current_text]

SetParserState(st) ==
    /\ messages' = st.messages
    /\ target_msgs' = st.target_msgs
    /\ other_msgs' = st.other_msgs
    /\ current_date' = st.current_date
    /\ current_time' = st.current_time
    /\ current_sender' = st.current_sender
    /\ current_text' = st.current_text

ParseInit ==
    /\ pc = "reading"
    /\ target_name \in TargetNames
    /\ input = <<>>
    /\ messages = <<>> /\ target_msgs = <<>> /\ other_msgs = <<>>
    /\ current_date = None /\ current_time = None
    /\ current_sender = None /\ current_text = None
    /\ MainIdle /\ DecisionIdle /\ PatternIdle /\ FetchIdle /\ LaunchIdle

\* for line in f: ... (one iteration)
ReadLine(line) ==
    /\ pc = "reading"
    /\ Len(input) < MaxLines
    /\ input' = Append(input, line)
    /\ SetParserState(LoopBody(ParserState, line, target_name))
    /\ UNCHANGED <<pc, target_name>>
    /\ UNCHANGED <<mainVars, decisionVars, patternVars, fetchVars, launchVars>>

\* End of file: the final flush and the return.
EndOfInput ==
    /\ pc = "reading"
    /\ pc' = "done"
    /\ SetParserState(AtEndOfInput(ParserState, target_name))
    /\ UNCHANGED <<target_name, input>>
    /\ UNCHANGED <<mainVars, decisionVars, patternVars, fetchVars, launchVars>>

ParseNext ==
    \/ \E line \in LineSet : ReadLine(line)
    \/ EndOfInput

SpecParse == ParseInit /\ [][ParseNext]_vars


(***************************************************************************)
(* The script parse_feishu_chat.py.  Python compiles the whole file before *)
(* it runs any of it, and decodes the escapes of every string literal      *)
(* while it does.  The literal of emoji_pattern (lines 116-134) holds      *)
(* these \U escapes; each must be followed by eight hexadecimal digits.    *)
(***************************************************************************)
HexDigits == AsciiDigits \cup {"a", "b", "c", "d", "e", "f", "A", "B", "C", "D", "E", "F"}

\* The eight characters that follow each \U of lines 118-124.
EmojiEscapes ==
    { <<"0","0","0","1","F","6","0","0">>, <<"0","0","0","1","F","6","4","F">>,
      <<"0","0","0","1","F","3","0","0">>, <<"0","0","0","1","F","5","F","F">>,
      <<"0","0","0","1","F","6","8","0">>, <<"0","0","0","1","F","6","F","F">>,
      <<"0","0","0","1","F","1","E","0">>, <<"0","0","0","1","F","1","F","F">>,
      <<"0","0","0","0","2","7","0","2">>, <<"0","0","0","0","2","7","B","0">>,
      <<"0","0","0","1","f","9","2","6">>, <<"0","0","0","1","f","9","3","7">>,
      <<"0","0","1","0","0","0","0","-">>, <<"0","0","1","0","f","f","f","f">> }

\* The unicode-escape decoding of one \UXXXXXXXX: eight hexadecimal digits.
EscapeDecodes(e) == Len(e) = 8 /\ \A i \in 1..8 : e[i] \in HexDigits

\* What compiling the file gives: the code, or a SyntaxError ("truncated
\* \UXXXXXXXX escape").
CompileResult ==
    IF \A e \in EmojiEscapes : EscapeDecodes(e) THEN "ok" ELSE "SyntaxError"

Runs == {1, 2}

MaxExportLines == 2

ExportLineSet ==
    { DateA,
      <<"a", ":", " ", "h", "a", "a">>,      \* a: haa
      <<"b", ":", "y">>,                     \* b:y
      <<"x">> }

RECURSIVE SeqsUpTo(_, _)
\* The sequences over S of length at most n.
SeqsUpTo(S, n) ==
    IF n = 0 THEN {<<>>}
    ELSE LET T == SeqsUpTo(S, n - 1)
         IN T \cup {Append(t, x) : t \in T, x \in S}

MainInit ==
    /\ m_export \in [Runs -> SeqsUpTo(ExportLineSet, MaxExportLines)]
    /\ m_target \in TargetNames
    /\ m_run = [r \in Runs |-> [pc |-> "start", exit_status |-> None, error |-> None,
                                stats |-> None, output |-> None]]
    /\ ParseIdle /\ DecisionIdle /\ PatternIdle /\ FetchIdle /\ LaunchIdle

\* python3 parse_feishu_chat.py <export> <target> <output_dir>: the file does
\* not compile, so the interpreter reports the SyntaxError and exits with
\* status 1 before main, parse_chat or analyze run; no statistics are
\* computed and no output file is written.
RunScript(r) ==
    /\ m_run[r].pc = "start"
    /\ CompileResult = "SyntaxError"
    /\ m_run' = [m_run EXCEPT ![r] = [pc |-> "exited", exit_status |-> Some(1),
                                      error |-> Some("SyntaxError"),
                                      stats |-> None, output |-> None]]
    /\ UNCHANGED <<m_export, m_target>>
    /\ UNCHANGED <<parseVars, decisionVars, patternVars, fetchVars, launchVars>>

MainNext == \E r \in Runs : RunScript(r)

SpecMain == MainInit /\ [][MainNext]_vars

(***************************************************************************)
(* log-decision.py: create_decision.  Time is counted in ticks, several to *)
(* the second; strftime("%Y%m%d-%H%M%S") keeps the second, isoformat()     *)
(* keeps the whole value.                                                  *)
(***************************************************************************)
TicksPerSecond == 2
MaxClock == 4
MaxDecisions == 3

Titles == {"choose memory system", "choose editor"}
Contexts == {"context"}
Reasons == {"reason"}

\* A dict: a function on its keys.
EmptyDict == [k \in {} |-> None]
DictSet(d, k, v) == [x \in DOMAIN d \cup {k} |-> IF x = k THEN v ELSE d[x]]

\* A variant of ReadIndex that never loads the existing index.
ReadIndex_AlwaysNew(file) == [decisions |-> <<>>, stats |-> EmptyDict]

\* Lines 22-27: the index read from index.json, or a new one.
ReadIndex(file) ==
    IF file # None THEN file[1] ELSE [decisions |-> <<>>, stats |-> EmptyDict]

\* Lines 29-31: decision_id = "dec-" + now.strftime("%Y%m%d-%H%M%S")
DecisionId(now) == <<"dec", now \div TicksPerSecond>>

\* Lines 33-43: the decision record; created_at is a second datetime.now().
NewDecision(id, title, context, reason, options, now) ==
    [id |-> id, title |-> title, context |-> context,
     options |-> IF options = None THEN <<>> ELSE options[1],
     selected |-> 0, reason |-> reason, created_at |-> now, status |-> "active"]

\* Lines 50-57: the index with the decision appended and the stats refreshed.
UpdateIndex(index, decision, now) ==
    LET decisions == Append(index.decisions,
                            [id |-> decision.id, title |-> decision.title,
                             created_at |-> decision.created_at])
    IN [decisions |-> decisions,
        stats |-> DictSet(DictSet(index.stats, "total", Len(decisions)),
                          "last_updated", now)]

DecisionInit ==
    /\ d_clock = 0
    /\ d_index = None
    /\ d_files = EmptyDict
    /\ d_log = <<>>
    /\ ParseIdle /\ MainIdle /\ PatternIdle /\ FetchIdle /\ LaunchIdle

\* create_decision(title, context, reason): t1, t2 and t3 are what the three
\* calls of datetime.now() (lines 30, 41, 57) return.
CreateDecision(title, context, reason) ==
    /\ Len(d_log) < MaxDecisions
    /\ \E t1, t2, t3 \in d_clock..MaxClock :
         /\ t1 <= t2 /\ t2 <= t3
         /\ LET index == ReadIndex(d_index)
                decision == NewDecision(DecisionId(t1), title, context, reason, None, t2)
            IN /\ d_files' = DictSet(d_files, decision.id, decision)
               /\ d_index' = Some(UpdateIndex(index, decision, t3))
               /\ d_log' = Append(d_log, [title |-> title, id |-> decision.id,
                                          created_at |-> decision.created_at])
         /\ d_clock' = t3
    /\ UNCHANGED <<parseVars, mainVars, patternVars, fetchVars, launchVars>>

\* Time passes between two runs of the script.
ClockTick ==
    /\ d_clock < MaxClock
    /\ d_clock' = d_clock + 1
    /\ UNCHANGED <<d_index, d_files, d_log>>
    /\ UNCHANGED <<parseVars, mainVars, patternVars, fetchVars, launchVars>>

DecisionNext ==
    \/ \E title \in Titles, context \in Contexts, reason \in Reasons :
          CreateDecision(title, context, reason)
    \/ ClockTick

SpecDecision == DecisionInit /\ [][DecisionNext]_vars

(***************************************************************************)
(* weekly_pattern_extractor.py: extract_patterns.  Dates are proleptic     *)
(* Gregorian ordinals (date.toordinal); a datetime is [day, tod] with tod  *)
(* 0 at midnight and 1 later in the day.                                   *)
(***************************************************************************)
StartsWith(s, prefix) == Len(prefix) <= Len(s) /\ SubSeq(s, 1, Len(prefix)) = prefix
EndsWith(s, suffix) ==
    Len(suffix) <= Len(s) /\ SubSeq(s, Len(s) - Len(suffix) + 1, Len(s)) = suffix

RECURSIVE Remove(_, _)
\* s.replace(old, ''): every occurrence of old removed, left to right.
Remove(s, old) ==
    IF s = <<>> THEN <<>>
    ELSE IF StartsWith(s, old) THEN Remove(SubSeq(s, Len(old) + 1, Len(s)), old)
    ELSE <<Head(s)>> \o Remove(Tail(s), old)

DotMd == <<".", "m", "d">>
MemoryBackup == <<"M","E","M","O","R","Y","-","b","a","c","k","u","p">>

\* int(c) of a decimal digit
DigitValue(c) == CHOOSE v \in 0..9 : c \in DigitsOfValue[v + 1]

RECURSIVE Number(_)
Number(s) == IF s = <<>> THEN 0
             ELSE 10 * Number(SubSeq(s, 1, Len(s) - 1)) + DigitValue(s[Len(s)])

IsLeap(y) == y % 4 = 0 /\ (y % 100 # 0 \/ y % 400 = 0)
DaysInMonth(y, m) ==
    IF m = 2 THEN (IF IsLeap(y) THEN 29 ELSE 28)
    ELSE IF m \in {4, 6, 9, 11} THEN 30 ELSE 31

RECURSIVE DaysBeforeMonth(_, _)
DaysBeforeMonth(y, m) ==
    IF m = 1 THEN 0 ELSE DaysBeforeMonth(y, m - 1) + DaysInMonth(y, m - 1)

\* date(y, m, d).toordinal()
ToOrdinal(y, m, d) ==
    (y - 1) * 365 + (y - 1) \div 4 - (y - 1) \div 100 + (y - 1) \div 400
    + DaysBeforeMonth(y, m) + d

\* How many characters the %m directive takes at position i of s (0: no match):
\* the alternatives 1[0-2], 0[1-9], [1-9], in this order.
MonthWidth(s, i) ==
    IF /\ i + 1 <= Len(s)
       /\ \/ s[i] = "1" /\ s[i + 1] \in {"0", "1", "2"}
          \/ s[i] = "0" /\ s[i + 1] \in AsciiDigits \ {"0"}
    THEN 2
    ELSE IF i <= Len(s) /\ s[i] \in AsciiDigits \ {"0"} THEN 1
    ELSE 0

\* The same for %d: 3[01], [12]\d, 0[1-9], [1-9], ' '[1-9].
DayWidth(s, i) ==
    IF /\ i + 1 <= Len(s)
       /\ \/ s[i] = "3" /\ s[i + 1] \in {"0", "1"}
          \/ s[i] \in {"1", "2"} /\ s[i + 1] \in Digits
          \/ s[i] = "0" /\ s[i + 1] \in AsciiDigits \ {"0"}
    THEN 2
    ELSE IF i <= Len(s) /\ s[i] \in AsciiDigits \ {"0"} THEN 1
    ELSE IF i + 1 <= Len(s) /\ s[i] = " " /\ s[i + 1] \in AsciiDigits \ {"0"} THEN 2
    ELSE 0

\* datetime.strptime(s, '%Y-%m-%d'): Some(the date's ordinal), or None where it
\* raises ValueError (no match, unconverted data, or no such day).
StrpTime(s) ==
    IF ~(Len(s) >= 5 /\ AllDigits(SubSeq(s, 1, 4)) /\ s[5] = "-") THEN None
    ELSE LET mw == MonthWidth(s, 6)
         IN IF mw = 0 \/ ~(6 + mw <= Len(s) /\ s[6 + mw] = "-") THEN None
            ELSE LET dw == DayWidth(s, 7 + mw)
                 IN IF dw = 0 \/ 7 + mw + dw - 1 # Len(s) THEN None
                    ELSE LET y == Number(SubSeq(s, 1, 4))
                             m == Number(SubSeq(s, 6, 5 + mw))
                             d == Number(LStrip(SubSeq(s, 7 + mw, Len(s))))
                         IN IF y >= 1 /\ d <= DaysInMonth(y, m)
                            THEN Some(ToOrdinal(y, m, d))
                            ELSE None

\* cutoff_date = datetime.now() - timedelta(days=days)
CutoffDate(now, days) == [day |-> now.day - days, tod |-> now.tod]

\* file_date >= cutoff_date, file_date being midnight of the day.
NotBefore(day, cutoff) == day > cutoff.day \/ (day = cutoff.day /\ cutoff.tod = 0)

\* Lines 25-34 for one directory entry: Some(the content read), or None when the
\* entry is skipped (the test of line 25 or of line 30, or any exception of
\* lines 28-32, which line 33 catches).
ContentRead(entry, cutoff) ==
    IF EndsWith(entry.name, DotMd) /\ ~StartsWith(entry.name, MemoryBackup)
    THEN LET file_date == StrpTime(Remove(entry.name, DotMd))
         IN IF file_date = None THEN None                      \* ValueError
            ELSE IF ~NotBefore(file_date[1], cutoff) THEN None
            ELSE IF entry.kind # "file" THEN None               \* IsADirectoryError
            ELSE Some(entry.name)
    ELSE None

MaxEntries == 2
MaxRunDays == 1

FileNames ==
    {
      \* 2024-03-05.md
      <<"2","0","2","4","-","0","3","-","0","5",".","m","d">>,
      \* 2024-03-04.md
      <<"2","0","2","4","-","0","3","-","0","4",".","m","d">>,
      \* 2024-02-27.md
      <<"2","0","2","4","-","0","2","-","2","7",".","m","d">>,
      \* 2024-01-01.md
      <<"2","0","2","4","-","0","1","-","0","1",".","m","d">>,
      \* 2024-03-05.md.md
      <<"2","0","2","4","-","0","3","-","0","5",".","m","d",".","m","d">>,
      \* 2024-3-5.md
      <<"2","0","2","4","-","3","-","5",".","m","d">>,
      \* MEMORY-backup-2024-03-05.md
      <<"M","E","M","O","R","Y","-","b","a","c","k","u","p","-","2","0","2","4","-","0","3","-","0","5",".","m","d">>,
      \* notes.md
      <<"n","o","t","e","s",".","m","d">>,
      \* 2024-03-05.txt
      <<"2","0","2","4","-","0","3","-","0","5",".","t","x","t">>,
      \* 2024-02-30.md
      <<"2","0","2","4","-","0","2","-","3","0",".","m","d">>,
      \* 2024-03-05.md with the year in ARABIC-INDIC digits
      <<"U+0662","U+0660","U+0662","U+0664","-","0","3","-","0","5",".","m","d">>
    }

\* One entry is a directory with the name of a recent daily log.
DirEntries ==
    {[name |-> n, kind |-> "file"] : n \in FileNames}
    \cup {[name |-> <<"2","0","2","4","-","0","3","-","0","4",".","m","d">>, kind |-> "dir"]}

Directories ==
    {S \in SUBSET DirEntries :
        /\ Cardinality(S) <= MaxEntries
        /\ \A e1, e2 \in S : e1.name = e2.name => e1 = e2}

Today == ToOrdinal(2024, 3, 5)

PatternInit ==
    /\ p_pc = "start"
    /\ p_dir \in {None} \cup {Some(S) : S \in Directories}
    /\ p_now \in {[day |-> Today, tod |-> t] : t \in {0, 1}}
    /\ p_days \in {1, 7}
    /\ p_todo = {}
    /\ all_content = <<>>
    /\ p_report = None
    /\ ParseIdle /\ MainIdle /\ DecisionIdle /\ FetchIdle /\ LaunchIdle

\* Lines 20-24: os.path.exists(MEMORY_DIR) and os.listdir(MEMORY_DIR).
ListDir ==
    /\ p_pc = "start"
    /\ p_pc' = "listing"
    /\ p_todo' = IF p_dir # None THEN p_dir[1] ELSE {}
    /\ UNCHANGED <<p_dir, p_now, p_days, all_content, p_report>>
    /\ UNCHANGED <<parseVars, mainVars, decisionVars, fetchVars, launchVars>>

\* Lines 24-34: one iteration of the loop over the directory, in any order.
VisitEntry(entry) ==
    /\ p_pc = "listing"
    /\ entry \in p_todo
    /\ p_todo' = p_todo \ {entry}
    /\ LET content == ContentRead(entry, CutoffDate(p_now, p_days))
       IN all_content' = IF content # None THEN Append(all_content, content[1])
                         ELSE all_content
    /\ UNCHANGED <<p_pc, p_dir, p_now, p_days, p_report>>
    /\ UNCHANGED <<parseVars, mainVars, decisionVars, fetchVars, launchVars>>

\* What a later datetime.now() of the run may return after `now`: the clock
\* does not go back, and the run ends within MaxRunDays days.
NowAfter(now) ==
    {t \in [day : now.day..(now.day + MaxRunDays), tod : {0, 1}] :
        t.day > now.day \/ t.tod >= now.tod}

\* Lines 36-64: nothing found, or the report written from the joined contents.
\* The file is named after the datetime.now() of line 49 and holds that of
\* line 53 as its time of generation; cutoff_date came from that of line 21.
WriteReport ==
    /\ p_pc = "listing"
    /\ p_todo = {}
    /\ p_pc' = "done"
    /\ IF all_content = <<>> THEN p_report' = None
       ELSE \E now49 \in NowAfter(p_now) : \E now53 \in NowAfter(now49) :
               p_report' = Some([days |-> p_days, day |-> now49.day,
                                 generated |-> now53, full_text |-> all_content])
    /\ UNCHANGED <<p_dir, p_now, p_days, p_todo, all_content>>
    /\ UNCHANGED <<parseVars, mainVars, decisionVars, fetchVars, launchVars>>

PatternNext ==
    \/ ListDir
    \/ \E entry \in DirEntries : VisitEntry(entry)
    \/ WriteReport

SpecPatterns == PatternInit /\ [][PatternNext]_vars

(***************************************************************************)
(* fetch_feishu_chat.py: main, get_tenant_token, get_chat_id and           *)
(* get_messages.  The server's answers are inputs.  An exception that      *)
(* nothing catches ends the script with a traceback and exit status 1.     *)
(***************************************************************************)
MaxPages == 3

FullArgv == <<"fetch_feishu_chat.py", "app_id", "app_secret", "user_id",
              "out.json", "extra">>

TokenResponses == {[code |-> 0, tenant_access_token |-> "token"], [code |-> 0],
                   [code |-> 99]}

ChatResponses == {[code |-> 0, items |-> <<>>],
                  [code |-> 0, items |-> <<[chat_id |-> "chat"]>>],
                  [code |-> 0, items |-> <<[chat_id |-> ""]>>],
                  [code |-> 0, items |-> <<[name |-> "chat"]>>],
                  [code |-> 99]}

\* The messages a page may hold: two of the requested user and one of
\* another, the content a JSON object text, and one of the requested user
\* with a text json.loads rejects.
Msg1 == [message_id |-> "m1", sender_id |-> "user_id", content |-> Some("hello")]
Msg2 == [message_id |-> "m2", sender_id |-> "other", content |-> Some("hi")]
Msg3 == [message_id |-> "m3", sender_id |-> "user_id", content |-> None]
Msg4 == [message_id |-> "m4", sender_id |-> "user_id", content |-> Some("bye")]

\* The items of a page: none, one message, or two messages, the second of
\* the requested user.
PageItems == {<<>>, <<Msg1>>, <<Msg2>>, <<Msg3>>, <<Msg1, Msg4>>, <<Msg2, Msg4>>}

PageResponses ==
    {[code |-> 99]} \cup
    {[code |-> 0, items |-> i, has_more |-> h, page_token |-> t] :
        i \in PageItems, h \in BOOLEAN, t \in {None, Some(""), Some("p1"), Some("p2")}}

FetchOut(usage, status, error, written) ==
    [usage |-> usage, exit_status |-> status, error |-> error, written |-> written]

FetchInit ==
    /\ f_pc = "start"
    /\ f_argv \in {SubSeq(FullArgv, 1, n) : n \in 1..Len(FullArgv)}
    /\ f_out = FetchOut(FALSE, None, None, None)
    /\ f_requests = <<>>
    /\ f_locals = [token |-> None, chat_id |-> None]
    /\ f_params_token = None
    /\ f_page_token = None
    /\ f_messages = <<>>
    /\ ParseIdle /\ MainIdle /\ DecisionIdle /\ PatternIdle /\ LaunchIdle

\* Lines 87-93: if len(sys.argv) < 4: print the usage, sys.exit(1)
ArgsTooFew(argv) == Len(argv) < 4

\* Lines 95-98: sys.argv[1] .. sys.argv[4] can be read (no IndexError).
ArgsReadable(argv) == Len(argv) >= 5

\* Lines 86-98: the argument check and the reading of the arguments.
CheckArgs ==
    /\ f_pc = "start"
    /\ IF ArgsTooFew(f_argv)
       THEN f_pc' = "exited" /\ f_out' = FetchOut(TRUE, Some(1), None, None)
       ELSE IF ~ArgsReadable(f_argv)
       THEN f_pc' = "exited"
            /\ f_out' = FetchOut(FALSE, Some(1), Some("IndexError"), None)
       ELSE f_pc' = "token" /\ f_out' = f_out
    /\ UNCHANGED <<f_argv, f_requests, f_locals, f_params_token, f_page_token,
                   f_messages>>
    /\ UNCHANGED <<parseVars, mainVars, decisionVars, patternVars, launchVars>>

\* Lines 15-25 (called at line 104): get_tenant_token.
GetTenantToken(resp) ==
    /\ f_pc = "token"
    /\ f_requests' = Append(f_requests, [url |-> "tenant_access_token",
                                         page_token |-> None, answer |-> resp])
    /\ IF resp.code # 0
       THEN /\ f_pc' = "exited"
            /\ f_out' = [f_out EXCEPT !.exit_status = Some(1),
                                      !.error = Some("Exception")]
            /\ UNCHANGED f_locals
       ELSE IF "tenant_access_token" \notin DOMAIN resp
       THEN /\ f_pc' = "exited"
            /\ f_out' = [f_out EXCEPT !.exit_status = Some(1),
                                      !.error = Some("KeyError")]
            /\ UNCHANGED f_locals
       ELSE /\ f_pc' = "chat"
            /\ f_locals' = [f_locals EXCEPT !.token = Some(resp.tenant_access_token)]
            /\ UNCHANGED f_out
    /\ UNCHANGED <<f_argv, f_params_token, f_page_token, f_messages>>
    /\ UNCHANGED <<parseVars, mainVars, decisionVars, patternVars, launchVars>>

\* Lines 36-39: what get_chat_id returns for the items of an answer.
ChatIdOf(items) == IF items # <<>> THEN Some(items[1].chat_id) ELSE None

\* Line 109, not (not chat_id): None and "" are false.
ChatFound(chat_id) == chat_id # None /\ chat_id[1] # ""

\* Lines 27-39 (called at lines 108-111): get_chat_id, and "No chat found"
\* when what it returns is None or "".
GetChatId(resp) ==
    /\ f_pc = "chat"
    /\ f_requests' = Append(f_requests, [url |-> "chats", page_token |-> None,
                                         answer |-> resp])
    /\ IF resp.code # 0
       THEN /\ f_pc' = "exited"
            /\ f_out' = [f_out EXCEPT !.exit_status = Some(1),
                                      !.error = Some("Exception")]
            /\ UNCHANGED f_locals
       ELSE IF resp.items # <<>> /\ "chat_id" \notin DOMAIN resp.items[1]
       THEN /\ f_pc' = "exited"
            /\ f_out' = [f_out EXCEPT !.exit_status = Some(1),
                                      !.error = Some("KeyError")]
            /\ UNCHANGED f_locals
       ELSE IF ~ChatFound(ChatIdOf(resp.items))
       THEN /\ f_pc' = "exited"
            /\ f_out' = [f_out EXCEPT !.exit_status = Some(1)]
            /\ UNCHANGED f_locals
       ELSE /\ f_pc' = "messages"
            /\ f_locals' = [f_locals EXCEPT !.chat_id = ChatIdOf(resp.items)]
            /\ UNCHANGED f_out
    /\ UNCHANGED <<f_argv, f_params_token, f_page_token, f_messages>>
    /\ UNCHANGED <<parseVars, mainVars, decisionVars, patternVars, launchVars>>

\* A variant of Collect that puts each message before those collected so
\* far, messages.insert(0, ...) for messages.append(...).
RECURSIVE Collect_Prepend(_, _, _)
Collect_Prepend(msgs, items, user_id) ==
    IF items = <<>> THEN Some(msgs)
    ELSE IF Head(items).sender_id # user_id THEN Collect_Prepend(msgs, Tail(items), user_id)
    ELSE IF Head(items).content = None THEN None
    ELSE Collect_Prepend(<<[message_id |-> Head(items).message_id,
                            sender_id |-> Head(items).sender_id,
                            content |-> Head(items).content[1]]>> \o msgs,
                         Tail(items), user_id)

\* Lines 64-76: the messages of user_id among items, appended to msgs; None if
\* json.loads raises on one of them.
RECURSIVE Collect(_, _, _)
Collect(msgs, items, user_id) ==
    IF items = <<>> THEN Some(msgs)
    ELSE IF Head(items).sender_id # user_id THEN Collect(msgs, Tail(items), user_id)
    ELSE IF Head(items).content = None THEN None
    ELSE Collect(Append(msgs, [message_id |-> Head(items).message_id,
                               sender_id |-> Head(items).sender_id,
                               content |-> Head(items).content[1]]),
                 Tail(items), user_id)

\* if page_token: (None and "" are false)
TokenGiven(o) == o # None /\ o[1] # ""

\* Lines 53-82: one iteration of the while loop of get_messages.
FetchPage(resp) ==
    /\ f_pc = "messages"
    /\ Len(f_requests) - 2 < MaxPages
    /\ LET token == IF TokenGiven(f_page_token) THEN f_page_token ELSE f_params_token
       IN /\ f_params_token' = token
          /\ f_requests' = Append(f_requests, [url |-> "messages", page_token |-> token,
                                               answer |-> resp])
    /\ IF resp.code # 0
       THEN f_pc' = "save" /\ UNCHANGED <<f_out, f_messages, f_page_token>>
       ELSE LET collected == Collect(f_messages, resp.items, f_argv[4])
            IN IF collected = None
               THEN /\ f_pc' = "exited"
                    /\ f_out' = [f_out EXCEPT !.exit_status = Some(1),
                                              !.error = Some("JSONDecodeError")]
                    /\ UNCHANGED <<f_messages, f_page_token>>
               ELSE /\ f_messages' = collected[1]
                    /\ UNCHANGED f_out
                    /\ IF ~resp.has_more
                       THEN f_pc' = "save" /\ UNCHANGED f_page_token
                       ELSE f_pc' = "messages" /\ f_page_token' = resp.page_token
    /\ UNCHANGED <<f_argv, f_locals>>
    /\ UNCHANGED <<parseVars, mainVars, decisionVars, patternVars, launchVars>>

\* Lines 117-133: the output file written; the script ends with status 0.
SaveOutput ==
    /\ f_pc = "save"
    /\ f_pc' = "exited"
    /\ f_out' = [f_out EXCEPT !.exit_status = Some(0),
                              !.written = Some([file |-> f_argv[5],
                                                user_id |-> f_argv[4],
                                                chat_id |-> f_locals.chat_id[1],
                                                messages |-> f_messages])]
    /\ UNCHANGED <<f_argv, f_requests, f_locals, f_params_token, f_page_token,
                   f_messages>>
    /\ UNCHANGED <<parseVars, mainVars, decisionVars, patternVars, launchVars>>

FetchNext ==
    \/ CheckArgs
    \/ \E resp \in TokenResponses : GetTenantToken(resp)
    \/ \E resp \in ChatResponses : GetChatId(resp)
    \/ \E resp \in PageResponses : FetchPage(resp)
    \/ SaveOutput

SpecFetch == FetchInit /\ [][FetchNext]_vars

(***************************************************************************)
(* The notebooklm scripts local_analyzer.py and quick_query.py.  Each      *)
(* parses its arguments with argparse and may launch a sibling script with *)
(* subprocess.run, waiting for it and returning its exit status.  An       *)
(* argument is a sequence of characters; a command line is the sequence of *)
(* the arguments after the script's name.                                  *)
(***************************************************************************)
\* An option of a parser: its option string, its destination and the number
\* of arguments it takes (0 for store_true and for help).
Opt(name, dest, arity) == [name |-> name, dest |-> dest, arity |-> arity]

\* -h and --help, which ArgumentParser adds to every parser.
HelpOptions == {Opt(<<"-", "h">>, "help", 0), Opt(<<"-", "-", "h", "e", "l", "p">>, "help", 0)}

\* quick_query.py lines 12-15
QuickQueryParser ==
    [positionals |-> <<"question">>,
     options |-> {Opt(<<"-", "-", "u", "r", "l">>, "url", 1),
                  Opt(<<"-", "-", "s", "h", "o", "w", "-", "b", "r", "o", "w", "s", "e", "r">>, "show_browser", 0)} \cup HelpOptions,
     defaults |-> [question |-> None, url |-> None, show_browser |-> FALSE]]

\* The default of --question (local_analyzer.py line 15), shortened: a text
\* with spaces that does not start with '-'.
DefaultQuestion == <<"A", "n", "a", "l", "y", "z", "e", " ", "t", "h", "i", "s">>

\* local_analyzer.py lines 13-17
LocalAnalyzerParser ==
    [positionals |-> <<"file_path">>,
     options |-> {Opt(<<"-", "-", "q", "u", "e", "s", "t", "i", "o", "n">>, "question", 1),
                  Opt(<<"-", "-", "u", "p", "l", "o", "a", "d">>, "upload", 0),
                  Opt(<<"-", "-", "n", "o", "t", "e", "b", "o", "o", "k", "-", "u", "r", "l">>, "notebook_url", 1)} \cup HelpOptions,
     defaults |-> [file_path |-> None, question |-> Some(DefaultQuestion),
                   upload |-> FALSE, notebook_url |-> None]]

\* arg_string.split('=', 1): the part before the first '=' and the part after.
EqPositions(tok) == {k \in 1..Len(tok) : tok[k] = "="}
FirstEq(tok) == CHOOSE k \in EqPositions(tok) : \A j \in EqPositions(tok) : k <= j
BeforeEq(tok) == IF EqPositions(tok) = {} THEN tok ELSE SubSeq(tok, 1, FirstEq(tok) - 1)
AfterEq(tok) ==
    IF EqPositions(tok) = {} THEN None ELSE Some(SubSeq(tok, FirstEq(tok) + 1, Len(tok)))

\* ArgumentParser._get_option_tuples: the options an argument abbreviates.  An
\* argument that starts with "--" is split at '=' and stands for every option
\* string it is a prefix of; one that starts with a single '-' stands for the
\* option string equal to its first two characters (the rest is the explicit
\* argument) and for every option string it is a prefix of.
OptionTuples(parser, tok) ==
    IF tok[2] = "-"
    THEN {[option |-> o, explicit |-> AfterEq(tok)] :
             o \in {x \in parser.options : StartsWith(x.name, BeforeEq(tok))}}
    ELSE {[option |-> o, explicit |-> Some(SubSeq(tok, 3, Len(tok)))] :
             o \in {x \in parser.options : x.name = SubSeq(tok, 1, 2)}}
         \cup
         {[option |-> o, explicit |-> None] :
             o \in {x \in parser.options : /\ x.name # SubSeq(tok, 1, 2)
                                           /\ StartsWith(x.name, tok)}}

\* The negative number matcher of argparse, '^-\d+$|^-\d*\.\d+$': '-' and
\* digits, or '-', digits or none, '.' and digits.  '$' also matches before a
\* newline that ends the argument.
IsNegativeNumber(tok) ==
    LET body == IF tok # <<>> /\ tok[Len(tok)] = "\n"
                THEN SubSeq(tok, 1, Len(tok) - 1) ELSE tok
    IN /\ Len(body) >= 2 /\ body[1] = "-"
       /\ \/ AllDigits(Tail(body))
          \/ \E k \in 2..(Len(body) - 1) :
                /\ body[k] = "."
                /\ AllDigits(SubSeq(body, 2, k - 1))
                /\ AllDigits(SubSeq(body, k + 1, Len(body)))

\* The option strings of a parser and the option an option string names.
OptionStrings(parser) == {o.name : o \in parser.options}
OptionNamed(parser, name) == CHOOSE o \in parser.options : o.name = name

\* ArgumentParser._parse_optional: what an argument is taken for.
ParseOptional(parser, tok) ==
    IF tok = <<>> \/ tok[1] # "-" THEN [kind |-> "positional"]
    ELSE IF tok \in OptionStrings(parser)
    THEN [kind |-> "option", option |-> OptionNamed(parser, tok), explicit |-> None]
    ELSE IF Len(tok) = 1 THEN [kind |-> "positional"]
    ELSE IF EqPositions(tok) # {} /\ BeforeEq(tok) \in OptionStrings(parser)
    THEN [kind |-> "option", option |-> OptionNamed(parser, BeforeEq(tok)),
          explicit |-> AfterEq(tok)]
    ELSE LET tuples == OptionTuples(parser, tok)
         IN IF Cardinality(tuples) > 1 THEN [kind |-> "ambiguous"]
            ELSE IF Cardinality(tuples) = 1
            THEN LET t == CHOOSE x \in tuples : TRUE
                 IN [kind |-> "option", option |-> t.option, explicit |-> t.explicit]
            ELSE IF IsNegativeNumber(tok) THEN [kind |-> "positional"]
            ELSE IF \E k \in 1..Len(tok) : tok[k] = " " THEN [kind |-> "positional"]
            ELSE [kind |-> "unknown"]

\* The argument "--", after which every argument is positional, and the place
\* of the first one on a command line (past the end when there is none).
DashDash == <<"-", "-">>
Separator(argv) ==
    IF \E i \in 1..Len(argv) : argv[i] = DashDash
    THEN CHOOSE i \in 1..Len(argv) :
            argv[i] = DashDash /\ \A j \in 1..(i - 1) : argv[j] # DashDash
    ELSE Len(argv) + 1

\* arg_strings_pattern of _parse_known_args: "-" for the first "--", "A" for
\* every argument after it and for a positional one, "O" for an option.
ArgPattern(parser, argv) ==
    [i \in 1..Len(argv) |->
        IF i = Separator(argv) THEN "-"
        ELSE IF i > Separator(argv) THEN "A"
        ELSE IF ParseOptional(parser, argv[i]).kind = "positional" THEN "A"
        ELSE "O"]

\* The value argparse stores for an argument that takes several strings and
\* is left with none: the empty list, which is neither None nor a string.
EmptyList == <<<<>>, <<>>>>

\* ArgumentParser._get_values of an argument with nargs None, which is given
\* one string or a string and a "--": the first "--" is removed from the
\* strings; one string left is the value, none left gives the empty list.
GetValues(args) ==
    LET k == Separator(args)
        rest == SubSeq(args, 1, k - 1) \o SubSeq(args, k + 1, Len(args))
    IN IF Len(rest) = 1 THEN Some(rest[1]) ELSE EmptyList

\* The strings a positional takes at place i of the pattern, by the pattern
\* "-*A-*" of nargs None: none when the pattern does not match there.
PositionalSpan(pat, i) ==
    LET at(k) == IF k <= Len(pat) THEN pat[k] ELSE ""
    IN IF at(i) = "A" THEN (IF at(i + 1) = "-" THEN 2 ELSE 1)
       ELSE IF at(i) = "-" /\ at(i + 1) = "A" THEN 2
       ELSE 0

\* consume_positionals of _parse_known_args: the positionals not yet filled
\* take their strings from place i on, in order, while the pattern matches.
\* ps is the state of the parse: the namespace, the positionals left, the
\* extras, and the exit status once the parser has exited.
RECURSIVE ConsumePositionals(_, _, _, _)
ConsumePositionals(argv, pat, i, ps) ==
    LET n == IF ps.left = <<>> THEN 0 ELSE PositionalSpan(pat, i)
    IN IF n = 0 THEN [i |-> i, ps |-> ps]
       ELSE ConsumePositionals(argv, pat, i + n,
                [ps EXCEPT !.values[Head(ps.left)] = GetValues(SubSeq(argv, i, i + n - 1)),
                           !.left = Tail(ps.left)])

\* The loop of consume_optional: the actions an option argument stands for,
\* with their strings.  A single-dash option without arguments passes the
\* rest of its explicit argument on as further single-dash options; an
\* option with one argument takes the explicit argument, or else the next
\* string when that is an "A" of the pattern (following is None otherwise).
\* taken counts the strings consumed after the option.
RECURSIVE OptionActions(_, _, _, _, _)
OptionActions(parser, o, explicit, following, acts) ==
    LET failed == [ok |-> FALSE, acts |-> <<>>, taken |-> 0]
    IN IF explicit # None
       THEN IF o.arity = 0 /\ o.name[2] # "-" /\ explicit[1] # <<>>
            THEN LET name == <<"-", explicit[1][1]>>
                     rest == IF Len(explicit[1]) > 1 THEN Some(Tail(explicit[1])) ELSE None
                 IN IF name \in OptionStrings(parser)
                    THEN OptionActions(parser, OptionNamed(parser, name), rest, following,
                                       Append(acts, [option |-> o, args |-> <<>>]))
                    ELSE failed
            ELSE IF o.arity = 1
            THEN [ok |-> TRUE, taken |-> 0,
                  acts |-> Append(acts, [option |-> o, args |-> <<explicit[1]>>])]
            ELSE failed
       ELSE IF o.arity = 0
       THEN [ok |-> TRUE, taken |-> 0, acts |-> Append(acts, [option |-> o, args |-> <<>>])]
       ELSE IF following # None
       THEN [ok |-> TRUE, taken |-> 1,
             acts |-> Append(acts, [option |-> o, args |-> <<following[1]>>])]
       ELSE failed

\* take_action for each action of an option argument in turn: help exits 0,
\* store_true stores True, store stores the value.
RECURSIVE TakeActions(_, _)
TakeActions(acts, ps) ==
    IF acts = <<>> THEN ps
    ELSE LET a == Head(acts)
         IN IF a.option.dest = "help" THEN [ps EXCEPT !.exit = Some(0)]
            ELSE IF a.option.arity = 0
            THEN TakeActions(Tail(acts), [ps EXCEPT !.values[a.option.dest] = TRUE])
            ELSE TakeActions(Tail(acts),
                             [ps EXCEPT !.values[a.option.dest] = GetValues(a.args)])

\* consume_optional of _parse_known_args at place i, an "O" of the pattern:
\* an unknown option joins the extras; otherwise its actions are taken, or
\* the parser exits 2 when they cannot be matched.
ConsumeOptional(parser, argv, pat, i, ps) ==
    LET p == ParseOptional(parser, argv[i])
        following == IF i < Len(argv) /\ pat[i + 1] = "A" THEN Some(argv[i + 1]) ELSE None
    IN IF p.kind = "unknown"
       THEN [i |-> i + 1, ps |-> [ps EXCEPT !.extras = Append(@, argv[i])]]
       ELSE LET m == OptionActions(parser, p.option, p.explicit, following, <<>>)
            IN IF ~m.ok THEN [i |-> i + 1, ps |-> [ps EXCEPT !.exit = Some(2)]]
               ELSE [i |-> i + 1 + m.taken, ps |-> TakeActions(m.acts, ps)]

\* The outcome of parse_args: the namespace, or the exit status of the script
\* (2 after an error, 0 after the help).
Parsed(values) == [exit |-> None, values |-> values]
ParserExit(status) == [exit |-> Some(status), values |-> <<>>]

\* ArgumentParser._parse_known_args from place i on, and the checks of
\* parse_args after it.  Up to the last option, the positionals take the
\* strings before the next option, or those strings join the extras, and the
\* option is consumed; after the last option the positionals take what they
\* match and the rest joins the extras.  A positional left unfilled is a
\* missing required argument, and extras are unrecognized arguments: exit 2.
RECURSIVE ParseFrom(_, _, _, _, _)
ParseFrom(parser, argv, pat, i, ps) ==
    LET later == {k \in i..Len(argv) : pat[k] = "O"}
    IN IF ps.exit # None THEN ParserExit(ps.exit[1])
       ELSE IF later = {}
       THEN LET c == ConsumePositionals(argv, pat, i, ps)
                extras == c.ps.extras \o SubSeq(argv, c.i, Len(argv))
            IN IF c.ps.left # <<>> THEN ParserExit(2)
               ELSE IF extras # <<>> THEN ParserExit(2)
               ELSE Parsed(c.ps.values)
       ELSE LET next == CHOOSE k \in later : \A j \in later : k <= j
                c == IF i # next THEN ConsumePositionals(argv, pat, i, ps)
                     ELSE [i |-> i, ps |-> ps]
            IN IF c.i > i THEN ParseFrom(parser, argv, pat, c.i, c.ps)
               ELSE LET o == ConsumeOptional(parser, argv, pat, next,
                                  [ps EXCEPT !.extras = @ \o SubSeq(argv, i, next - 1)])
                    IN ParseFrom(parser, argv, pat, o.i, o.ps)

\* parser.parse_args(): an ambiguous abbreviation before the first "--" exits
\* 2 while the pattern is built; otherwise the arguments are consumed from
\* the first on, starting from the defaults.
ParseArgs(parser, argv) ==
    IF \E i \in 1..(Separator(argv) - 1) : ParseOptional(parser, argv[i]).kind = "ambiguous"
    THEN ParserExit(2)
    ELSE ParseFrom(parser, argv, ArgPattern(parser, argv), 1,
                   [values |-> parser.defaults, left |-> parser.positionals,
                    extras |-> <<>>, exit |-> None])

\* The file given to local_analyzer.py, a notebook URL, and the sibling script
\* quick_query.py looks for.
DocFile == <<"d", "o", "c", ".", "t", "x", "t">>
NotebookUrl == <<"U">>
AskScript == <<"a", "s", "k", "_", "q", "u", "e", "s", "t", "i", "o", "n", ".", "p", "y">>

LocalCmdlines ==
    {<<>>, <<<<"-", "-", "b", "o", "g", "u", "s">>, DocFile>>, <<DocFile, <<"-", "h">>>>,
     <<DashDash, DocFile>>, <<<<>>>>,
     <<DocFile, <<"-", "-", "q", "u", "e", "s", "t", "i", "o", "n", "=", "-", "-">>, <<"-", "-", "n", "o", "t", "e", "b", "o", "o", "k", "-", "u", "r", "l">>, NotebookUrl>>,
     <<DocFile, <<"-", "-", "q", "u", "e", "s", "t", "i", "o", "n">>, <<"-", "1", "\n">>, <<"-", "-", "n", "o", "t", "e", "b", "o", "o", "k", "-", "u", "r", "l">>, NotebookUrl>>} \cup
    {<<DocFile>> \o q \o up \o nb :
        q \in {<<>>, <<<<"-", "-", "q", "u", "e", "s", "t", "i", "o", "n">>, <<"q">>>>, <<<<"-", "-", "q", "u", "e", "s", "t", "i", "o", "n", "=", "-", "q">>>>},
        up \in {<<>>, <<<<"-", "-", "u", "p", "l", "o", "a", "d">>>>},
        nb \in {<<>>, <<<<"-", "-", "n", "o", "t", "e", "b", "o", "o", "k", "-", "u", "r", "l">>, NotebookUrl>>, <<<<"-", "-", "n", "o", "t", "e", "b", "o", "o", "k", "-", "u", "r", "l">>, <<>>>>,
                <<<<"-", "-", "n", "o", "t", "e", "b", "o", "o", "k">>, NotebookUrl>>}}

QuickCmdlines ==
    {<<>>, <<<<"-", "-", "u", "r", "l">>, NotebookUrl>>, <<<<"q">>, <<"-", "-", "u", "r", "l">>>>,
     <<<<"q">>, DashDash>>, <<DashDash, <<"-", "h">>>>, <<<<"q">>, <<"-", "h", "h">>>>,
     <<<<"q">>, <<"-", "-", "u", "r", "l", "=", "-", "-">>>>, <<<<"-", "1", "\n">>>>} \cup
    {<<q>> \o nb \o sb :
        q \in {<<"q">>, DefaultQuestion},
        nb \in {<<>>, <<<<"-", "-", "u", "r", "l">>, NotebookUrl>>, <<<<"-", "-", "u", "r", "l", "=", "U">>>>, <<<<"-", "-", "u">>, NotebookUrl>>,
                <<<<"-", "-", "n", "o", "t", "e", "b", "o", "o", "k", "-", "u", "r", "l">>, NotebookUrl>>},
        sb \in {<<>>, <<<<"-", "-", "s", "h", "o", "w", "-", "b", "r", "o", "w", "s", "e", "r">>>>, <<<<"-", "-", "s", "h", "o", "w">>>>}}

Cmdlines ==
    {[script |-> "local_analyzer.py", argv |-> a] : a \in LocalCmdlines} \cup
    {[script |-> "quick_query.py", argv |-> a] : a \in QuickCmdlines}

\* The exit statuses of ask_question.py.
AskStatuses == {0, 1, 3}

\* A running script: waiting is TRUE inside subprocess.run, child is the
\* returncode of the finished child.
Frame(script, argv) ==
    [script |-> script, argv |-> argv, waiting |-> FALSE, child |-> None]

Top == n_stack[Len(n_stack)]

LaunchInit ==
    /\ n_cmdline \in Cmdlines
    /\ n_files \in SUBSET {DocFile, AskScript}
    /\ n_stack = <<Frame(n_cmdline.script, n_cmdline.argv)>>
    /\ n_launches = <<>>
    /\ n_exits = <<>>
    /\ ParseIdle /\ MainIdle /\ DecisionIdle /\ PatternIdle /\ FetchIdle

\* sys.exit(main()): the script ends; subprocess.run in the parent, if any,
\* returns with this returncode.
Exit(status) ==
    LET rest == SubSeq(n_stack, 1, Len(n_stack) - 1)
    IN /\ n_exits' = Append(n_exits, [script |-> Top.script, status |-> status])
       /\ n_stack' = IF rest = <<>> THEN rest
                     ELSE [rest EXCEPT ![Len(rest)].child = Some(status)]
       /\ UNCHANGED n_launches

\* subprocess.run([sys.executable, script] + argv)
Run(script, argv) ==
    /\ n_launches' = Append(n_launches, [script |-> script, argv |-> argv,
                                         by |-> Top.script])
    /\ n_stack' = Append([n_stack EXCEPT ![Len(n_stack)].waiting = TRUE],
                         Frame(script, argv))
    /\ UNCHANGED n_exits

\* local_analyzer.py lines 42-46: cmd, after sys.executable and the script.
LocalAnalyzerCmd(args) ==
    <<args.question[1], <<"-", "-", "n", "o", "t", "e", "b", "o", "o", "k", "-", "u", "r", "l">>, args.notebook_url[1]>>

\* Path(args.file_path).exists(), line 22: the empty path is the current
\* directory, which exists.
PathExists(path) == path = <<>> \/ path \in n_files

\* local_analyzer.py main, lines 12-49 and 51-58, up to subprocess.run.  A
\* question that is the empty list makes subprocess.run raise TypeError, and
\* the script ends with status 1 and nothing launched.
LocalAnalyzerMain ==
    /\ n_stack # <<>>
    /\ Top.script = "local_analyzer.py" /\ ~Top.waiting
    /\ LET parsed == ParseArgs(LocalAnalyzerParser, Top.argv)
           args == parsed.values
       IN IF parsed.exit # None THEN Exit(parsed.exit[1])
          ELSE IF ~PathExists(args.file_path[1]) THEN Exit(1)
          ELSE IF args.upload THEN Exit(0)
          ELSE IF Truthy(args.notebook_url)
          THEN IF args.question = EmptyList THEN Exit(1)
               ELSE Run("quick_query.py", LocalAnalyzerCmd(args))
          ELSE Exit(0)
    /\ UNCHANGED <<n_cmdline, n_files>>
    /\ UNCHANGED <<parseVars, mainVars, decisionVars, patternVars, fetchVars>>

\* local_analyzer.py lines 49-50: return result.returncode
LocalAnalyzerReturn ==
    /\ n_stack # <<>>
    /\ Top.script = "local_analyzer.py" /\ Top.waiting /\ Top.child # None
    /\ Exit(Top.child[1])
    /\ UNCHANGED <<n_cmdline, n_files>>
    /\ UNCHANGED <<parseVars, mainVars, decisionVars, patternVars, fetchVars>>

\* quick_query.py lines 28-34: cmd, after sys.executable and the script.
QuickQueryCmd(args) ==
    <<<<"-", "-", "q", "u", "e", "s", "t", "i", "o", "n">>, args.question[1]>>
    \o (IF Truthy(args.url) THEN <<<<"-", "-", "n", "o", "t", "e", "b", "o", "o", "k", "-", "u", "r", "l">>, args.url[1]>> ELSE <<>>)
    \o (IF args.show_browser THEN <<<<"-", "-", "s", "h", "o", "w", "-", "b", "r", "o", "w", "s", "e", "r">>>> ELSE <<>>)

\* quick_query.py main, lines 11-38, up to subprocess.run.
QuickQueryMain ==
    /\ n_stack # <<>>
    /\ Top.script = "quick_query.py" /\ ~Top.waiting
    /\ LET parsed == ParseArgs(QuickQueryParser, Top.argv)
       IN IF parsed.exit # None THEN Exit(parsed.exit[1])
          ELSE IF AskScript \notin n_files THEN Exit(1)
          ELSE Run("ask_question.py", QuickQueryCmd(parsed.values))
    /\ UNCHANGED <<n_cmdline, n_files>>
    /\ UNCHANGED <<parseVars, mainVars, decisionVars, patternVars, fetchVars>>

\* quick_query.py lines 38-39: return result.returncode
QuickQueryReturn ==
    /\ n_stack # <<>>
    /\ Top.script = "quick_query.py" /\ Top.waiting /\ Top.child # None
    /\ Exit(Top.child[1])
    /\ UNCHANGED <<n_cmdline, n_files>>
    /\ UNCHANGED <<parseVars, mainVars, decisionVars, patternVars, fetchVars>>

\* ask_question.py runs and ends with some exit status.
AskQuestion(status) ==
    /\ n_stack # <<>>
    /\ Top.script = "ask_question.py"
    /\ Exit(status)
    /\ UNCHANGED <<n_cmdline, n_files>>
    /\ UNCHANGED <<parseVars, mainVars, decisionVars, patternVars, fetchVars>>

LaunchNext ==
    \/ LocalAnalyzerMain
    \/ LocalAnalyzerReturn
    \/ QuickQueryMain
    \/ QuickQueryReturn
    \/ \E status \in AskStatuses : AskQuestion(status)

SpecLaunch == LaunchInit /\ [][LaunchNext]_vars

(***************************************************************************)
(* Properties of parse_chat, stated over the lines read (input) and the    *)
(* records returned.                                                       *)
(***************************************************************************)
IsHeaderAt(inp, i) == ~IsBlank(inp[i]) /\ DateMatches(inp[i])

\* The position of the nearest date header before position i, 0 if there is none.
HeaderBefore(inp, i) ==
    LET H == {j \in 1..(i - 1) : IsHeaderAt(inp, j)}
    IN IF H = {} THEN 0 ELSE CHOOSE j \in H : \A k \in H : k <= j

\* A sender line read after a date header.
IsSenderLineAt(inp, i) ==
    /\ ~IsBlank(inp[i])
    /\ ~DateMatches(inp[i])
    /\ SenderMatches(inp[i])
    /\ HeaderBefore(inp, i) > 0

RECURSIVE Ascending(_)
Ascending(S) ==
    IF S = {} THEN <<>>
    ELSE LET m == CHOOSE x \in S : \A y \in S : x <= y
         IN <<m>> \o Ascending(S \ {m})

\* The positions of the sender lines, in input order.
SenderLines(inp) == Ascending({i \in 1..Len(inp) : IsSenderLineAt(inp, i)})

\* The sender lines whose message must have been emitted: those followed by a
\* date header or another sender line, and all of them at end of input.
FlushedLines(inp, atEnd) ==
    Ascending({i \in 1..Len(inp) :
                 /\ IsSenderLineAt(inp, i)
                 /\ \/ atEnd
                    \/ \E j \in (i + 1)..Len(inp) :
                          IsHeaderAt(inp, j) \/ IsSenderLineAt(inp, j)})

\* No sender line has been read since the last date header (or at all).
NoSenderPending(inp) ==
    \A i \in 1..Len(inp) :
        IsSenderLineAt(inp, i) => HeaderBefore(inp, Len(inp) + 1) > i

IsPrefix(p, s) == Len(p) <= Len(s) /\ SubSeq(s, 1, Len(p)) = p

\* C1: parse_chat emits exactly one record for every sender line read after a
\* date header: after any prefix of the input the records are exactly those of
\* the sender lines already followed by a date header or a sender line, at end
\* of input those of all sender lines, each once and in input order.
C1_OneRecordPerSenderLine ==
    LET fl == FlushedLines(input, pc = "done")
    IN /\ Len(messages) = Len(fl)
       /\ \A k \in 1..Len(fl) :
            /\ messages[k].sender = SenderGroups(input[fl[k]]).sender
            /\ IsPrefix(SenderGroups(input[fl[k]]).text, messages[k].text)
       /\ pc = "done" => Len(messages) = Len(SenderLines(input))

\* Two sender lines, the first flushed by a date header, the last at the end.
C1_Witness ==
    /\ pc = "done"
    /\ Len(SenderLines(input)) = 2
    /\ Len(messages) = 2
    /\ IsSenderLineAt(input, Len(input))
    /\ \E j \in 1..Len(input) : j > 2 /\ IsHeaderAt(input, j)

\* C3: every record carries the date and time of the nearest date header that
\* precedes its sender line in the input.
C3_StampedWithPrecedingHeader ==
    LET fl == FlushedLines(input, pc = "done")
    IN /\ Len(messages) = Len(fl)
       /\ \A k \in 1..Len(fl) :
            LET h == HeaderBefore(input, fl[k])
            IN /\ h > 0
               /\ messages[k].date = DateGroups(input[h]).date
               /\ messages[k].time = DateGroups(input[h]).time

\* A record flushed by a new date header with another date, and two records
\* under one header.
C3_Witness ==
    /\ Len(messages) >= 2
    /\ messages[1].date = messages[2].date
    /\ \E j \in 1..Len(input) :
          /\ IsHeaderAt(input, j)
          /\ DateGroups(input[j]).date # messages[Len(messages)].date
          /\ HeaderBefore(input, j) > 0
          /\ \A k \in 1..Len(messages) : messages[k].date # DateGroups(input[j]).date

RECURSIVE Filter(_, _, _)
\* The records of msgs whose sender is (keep = TRUE) or is not (FALSE) name.
Filter(msgs, name, keep) ==
    IF msgs = <<>> THEN <<>>
    ELSE (IF (Head(msgs).sender = name) = keep THEN <<Head(msgs)>> ELSE <<>>)
         \o Filter(Tail(msgs), name, keep)

\* C9: target_msgs and other_msgs partition messages by sender = target_name,
\* each in the order of messages.
C9_Partition ==
    /\ target_msgs = Filter(messages, target_name, TRUE)
    /\ other_msgs = Filter(messages, target_name, FALSE)
    /\ Len(messages) = Len(target_msgs) + Len(other_msgs)

C9_Witness ==
    /\ pc = "done"
    /\ Len(target_msgs) >= 2
    /\ Len(other_msgs) >= 1
    /\ messages[1].sender # target_name
    /\ messages[Len(messages)].sender = target_name


RECURSIVE JoinLines(_, _)
\* first, then each line of rest, joined by newline characters.
JoinLines(first, rest) ==
    IF rest = <<>> THEN first
    ELSE JoinLines(first \o <<"\n">> \o Head(rest), Tail(rest))

\* A date header, a sender line, then only non-blank lines that are not date
\* headers.
MultiLineShape(inp) ==
    /\ Len(inp) >= 2
    /\ IsHeaderAt(inp, 1)
    /\ IsSenderLineAt(inp, 2)
    /\ \A i \in 3..Len(inp) : ~IsBlank(inp[i]) /\ ~DateMatches(inp[i])

\* msgs holds a single record of sender, and its text is text.
SingleRecord(msgs, sender, text) ==
    /\ Cardinality({k \in 1..Len(msgs) : msgs[k].sender = sender}) = 1
    /\ \A k \in 1..Len(msgs) : msgs[k].sender = sender => msgs[k].text = text

\* C2 as stated: for a date header, a 'sender: first' line and any further
\* non-blank lines that are not date headers, the result holds a single record
\* of that sender whose text is 'first' and the further lines joined by newlines.
C2_AnyFurtherLines ==
    (pc = "done" /\ MultiLineShape(input)) =>
        SingleRecord(messages, SenderGroups(input[2]).sender,
                     JoinLines(SenderGroups(input[2]).text,
                               SubSeq(input, 3, Len(input))))

\* C2 as amended: the same, for further lines that do not match the sender
\* pattern either (none holds a ':' after its first character).
C2_FurtherLinesWithoutSender ==
    (/\ pc = "done"
     /\ MultiLineShape(input)
     /\ \A i \in 3..Len(input) : ~SenderMatches(input[i])) =>
        SingleRecord(messages, SenderGroups(input[2]).sender,
                     JoinLines(SenderGroups(input[2]).text,
                               SubSeq(input, 3, Len(input))))

\* A message of three lines has been returned as one record.
C2_Witness ==
    /\ pc = "done"
    /\ Len(input) = 4
    /\ MultiLineShape(input)
    /\ \A i \in 3..Len(input) : ~SenderMatches(input[i])
    /\ Len(messages) = 1
    /\ Len(messages[1].text) >= 5

\* The first seven fields of the parser: everything but pc, target_name, input.
parserFields == <<messages, target_msgs, other_msgs,
                  current_date, current_time, current_sender, current_text>>

\* C10: reading a whitespace-only line, any line before the first date header,
\* or a non-date line without sender while no sender is pending changes no
\* parser state; a date header read while no sender is pending adds no record.
C10_InertLines ==
    [][ (pc = "reading" /\ Len(input') = Len(input) + 1) =>
          LET line == input'[Len(input')]
          IN /\ ( \/ IsBlank(line)
                  \/ (HeaderBefore(input, Len(input) + 1) = 0 /\ ~DateMatches(line))
                  \/ (/\ ~DateMatches(line)
                      /\ ~SenderMatches(line)
                      /\ NoSenderPending(input)) )
                => UNCHANGED parserFields
             /\ (DateMatches(line) /\ NoSenderPending(input))
                => UNCHANGED <<messages, target_msgs, other_msgs>> ]_vars

\* A run in which each kind of inert line was read: a line before the first
\* date header, the header, a whitespace-only line, and a line without sender
\* while no sender is pending; nothing is returned.
C10_Witness ==
    /\ pc = "done"
    /\ Len(input) = 4
    /\ ~IsBlank(input[1]) /\ ~DateMatches(input[1])
    /\ IsHeaderAt(input, 2)
    /\ IsBlank(input[3])
    /\ ~IsBlank(input[4]) /\ ~DateMatches(input[4]) /\ ~SenderMatches(input[4])
    /\ messages = <<>>
    /\ current_date = Some(DateGroups(input[2]).date)
    /\ current_sender = None

(***************************************************************************)
(* Properties of the statistics of parse_feishu_chat.py                    *)
(***************************************************************************)
\* The texts analyze works on: the non-empty texts of the target's records (the
\* exports of the model hold no system message or media placeholder).
TextMessages(msgs) ==
    LET I == {k \in 1..Len(msgs) : msgs[k].text # <<>>}
        idx == Ascending(I)
    IN [k \in 1..Len(idx) |-> msgs[idx[k]].text]

\* The substrings of n characters of t, one for every start position.
NGrams(t, n) ==
    IF Len(t) < n THEN <<>>
    ELSE [i \in 1..(Len(t) - n + 1) |-> SubSeq(t, i, i + n - 1)]

\* How often phrase p is a 2- or 3-character substring of one of texts.
NGramCount(p, texts) ==
    LET occ(t, n) == Cardinality({i \in 1..Len(NGrams(t, n)) : NGrams(t, n)[i] = p})
        RECURSIVE sum(_)
        sum(ts) == IF ts = <<>> THEN 0
                   ELSE occ(Head(ts), 2) + occ(Head(ts), 3) + sum(Tail(ts))
    IN sum(texts)

AllExited == \A r \in Runs : m_run[r].pc = "exited"

\* C4 as stated: two exports with the same sequence of messages of the target
\* sender give identical statistics.
C4_SameTargetSameStats ==
    (/\ AllExited
     /\ ParseChat(m_export[1], m_target).target_msgs
          = ParseChat(m_export[2], m_target).target_msgs
     /\ m_export[1] # m_export[2]) =>
        /\ m_run[1].stats # None
        /\ m_run[1].stats = m_run[2].stats

\* C5 as stated: the phrase statistics count every 2- and 3-character substring
\* of each text message, each start position once, and nothing else.
C5_PhrasesAreNGrams ==
    \A r \in Runs :
        m_run[r].pc = "exited" =>
            /\ m_run[r].stats # None
            /\ LET texts == TextMessages(ParseChat(m_export[r], m_target).target_msgs)
                   counts == m_run[r].stats[1].phrases
                   grams == UNION {{NGrams(texts[k], n)[i] : i \in 1..Len(NGrams(texts[k], n))} :
                                      k \in 1..Len(texts), n \in {2, 3}}
               IN /\ DOMAIN counts = grams
                  /\ \A p \in grams : counts[p] = NGramCount(p, texts)

(***************************************************************************)
(* Properties of create_decision                                           *)
(***************************************************************************)
\* C6: after any sequence of create_decision calls the index holds one entry
\* (id, title, created_at) per call, in call order (so each call appended one
\* entry and changed none), and stats.total is the number of entries.
C6_IndexAppended ==
    /\ d_index = None => d_log = <<>>
    /\ d_index # None =>
         LET index == d_index[1]
         IN /\ Len(index.decisions) = Len(d_log)
            /\ \A k \in 1..Len(d_log) :
                 index.decisions[k] = [id |-> d_log[k].id, title |-> d_log[k].title,
                                       created_at |-> d_log[k].created_at]
            /\ "total" \in DOMAIN index.stats
            /\ index.stats["total"] = Len(index.decisions)

\* Three calls, the index written by the earlier ones read back each time.
C6_Witness ==
    /\ d_index # None
    /\ Len(d_index[1].decisions) = 3
    /\ d_index[1].decisions[1].title # d_index[1].decisions[2].title
    /\ d_index[1].decisions[1].created_at < d_index[1].decisions[3].created_at

\* C11 as stated: after any sequence of create_decision calls the ids of
\* index.decisions are pairwise distinct, and there are as many decision files
\* as index entries (so no call has overwritten the file of an earlier one).
C11_IdsDistinct ==
    d_index # None =>
        LET decisions == d_index[1].decisions
        IN /\ \A i, j \in 1..Len(decisions) :
                 i # j => decisions[i].id # decisions[j].id
           /\ Cardinality(DOMAIN d_files) = Len(decisions)
           /\ \A k \in 1..Len(decisions) :
                 /\ decisions[k].id \in DOMAIN d_files
                 /\ d_files[decisions[k].id].title = decisions[k].title
                 /\ d_files[decisions[k].id].created_at = decisions[k].created_at


(***************************************************************************)
(* Properties of extract_patterns                                          *)
(***************************************************************************)
\* The date of a name of the form YYYY-MM-DD.md: Some(ordinal), or None for any
\* other name and for a day that does not exist.
DailyLogDate(name) ==
    IF /\ Len(name) = 13
       /\ IsDateText(SubSeq(name, 1, 10))
       /\ name[5] = "-" /\ name[8] = "-"
       /\ SubSeq(name, 11, 13) = DotMd
    THEN LET y == Number(SubSeq(name, 1, 4))
             m == Number(SubSeq(name, 6, 7))
             d == Number(SubSeq(name, 9, 10))
         IN IF y >= 1 /\ m \in 1..12 /\ d \in 1..DaysInMonth(y, m)
            THEN Some(ToOrdinal(y, m, d)) ELSE None
    ELSE None

Contributed(name) == \E k \in 1..Len(all_content) : all_content[k] = name

\* C7 as stated: a file of the memory directory contributes its content if and
\* only if its name is <YYYY-MM-DD>.md, does not start with MEMORY-backup, and
\* its date is not before the current time minus `days` days.
C7_ExactlyRecentDailyLogs ==
    (p_pc = "done" /\ p_dir # None) =>
        \A e \in p_dir[1] :
            e.kind = "file" =>
                (Contributed(e.name) <=>
                    /\ DailyLogDate(e.name) # None
                    /\ ~StartsWith(e.name, MemoryBackup)
                    /\ NotBefore(DailyLogDate(e.name)[1], CutoffDate(p_now, p_days)))


(***************************************************************************)
(* Properties of fetch_feishu_chat.py                                      *)
(***************************************************************************)
\* C8 as stated: with fewer than the four arguments of the usage text, main
\* prints the usage and exits with status 1, and no request is made and no file
\* written.
C8_UsageOnMissingArguments ==
    Len(f_argv) - 1 < 4 =>
        /\ f_requests = <<>>
        /\ f_out.written = None
        /\ f_pc = "exited" => (f_out.usage /\ f_out.exit_status = Some(1))

\* The requests get_messages has made, in order, each with the server's answer.
MessageRequests == SelectSeq(f_requests, LAMBDA r : r.url = "messages")

\* An answer that is a page (code 0), as opposed to a non-zero code.
IsPage(answer) == answer.code = 0

\* C12 as stated: get_messages stops after the first answer that is a non-zero
\* code or a page whose has_more is false; every request after the first carries
\* the page_token returned by the preceding answer; and no page is requested
\* twice (the page tokens of the requests are pairwise distinct), which is what
\* makes the loop end on a server with finitely many pages.
C12_PagesInTurn ==
    LET reqs == MessageRequests
    IN /\ \A k \in 1..(Len(reqs) - 1) :
             IsPage(reqs[k].answer) /\ reqs[k].answer.has_more
       /\ \A k \in 2..Len(reqs) :
             reqs[k].page_token = reqs[k - 1].answer.page_token
       /\ \A i, j \in 1..Len(reqs) :
             i # j => reqs[i].page_token # reqs[j].page_token
       /\ (f_pc = "messages" /\ reqs # <<>>) =>
             IsPage(reqs[Len(reqs)].answer) /\ reqs[Len(reqs)].answer.has_more

\* The messages of user_id on the pages of the first n requests of reqs, page
\* after page and in the order of each page.
RECURSIVE TargetMessages(_, _, _)
TargetMessages(reqs, n, user_id) ==
    IF n = 0 THEN <<>>
    ELSE LET items == IF IsPage(reqs[n].answer) THEN reqs[n].answer.items ELSE <<>>
             mine == SelectSeq(items, LAMBDA m : m.sender_id = user_id)
         IN TargetMessages(reqs, n - 1, user_id) \o
            [k \in 1..Len(mine) |-> [message_id |-> mine[k].message_id,
                                     sender_id |-> mine[k].sender_id,
                                     content |-> mine[k].content[1]]]

\* get_messages has returned: main goes on to write the file.
Returned == f_pc = "save" \/ (f_pc = "exited" /\ f_out.written # None)

\* C13: a non-zero code is the answer of the last request only (no request
\* follows it); get_messages then returns, without an exception, exactly the
\* messages of user_id on the pages fetched before it, in fetch order.  The
\* list collected so far, and so the list returned, holds only messages whose
\* sender is user_id, in fetch order.
C13_ErrorKeepsCollected ==
    LET reqs == MessageRequests
        n == Len(reqs)
    IN /\ \A k \in 1..(n - 1) : IsPage(reqs[k].answer)
       /\ (n > 0 /\ ~IsPage(reqs[n].answer)) =>
             /\ Returned
             /\ f_out.error = None
             /\ f_messages = TargetMessages(reqs, n - 1, f_argv[4])
       /\ \A k \in 1..Len(f_messages) : f_messages[k].sender_id = f_argv[4]
       /\ Returned =>
             /\ f_messages = TargetMessages(reqs, n, f_argv[4])
             /\ f_out.written # None => f_out.written[1].messages = f_messages

\* A page with two messages of user_id, a page with a message of another
\* sender and one of user_id, then a non-zero code: the three messages of
\* user_id are returned and written, page after page, and the list is not
\* the same read backwards.
C13_Witness ==
    LET reqs == MessageRequests
    IN /\ Len(reqs) = 3
       /\ ~IsPage(reqs[3].answer)
       /\ reqs[1].answer.items = <<Msg1, Msg4>>
       /\ reqs[2].answer.items = <<Msg2, Msg4>>
       /\ [k \in 1..Len(f_messages) |-> f_messages[k].message_id] = <<"m1", "m4", "m4">>
       /\ f_out.written # None


(***************************************************************************)
(* Properties of the notebooklm scripts                                    *)
(***************************************************************************)
\* The exit statuses of the runs of a script, in the order they ended.
StatusesOf(script) ==
    LET ended == SelectSeq(n_exits, LAMBDA e : e.script = script)
    IN [k \in 1..Len(ended) |-> ended[k].status]

\* C14 as stated: when local_analyzer.py, run on an existing file with
\* --notebook-url U and without --upload, has ended, it has launched
\* quick_query.py; if ask_question.py exists, quick_query.py has launched it
\* with --question <question> --notebook-url U, and the exit status of
\* local_analyzer.py is that of ask_question.py; if ask_question.py is missing,
\* quick_query.py has returned 1 and launched nothing.
C14_LaunchesCompose ==
    LET parsed == ParseArgs(LocalAnalyzerParser, n_cmdline.argv)
        args == parsed.values
    IN (/\ n_cmdline # <<>>
        /\ n_cmdline.script = "local_analyzer.py"
        /\ n_stack = <<>>
        /\ parsed.exit = None
        /\ args.file_path[1] \in n_files
        /\ ~args.upload
        /\ Truthy(args.notebook_url)) =>
           /\ n_launches # <<>>
           /\ n_launches[1].script = "quick_query.py"
           /\ n_launches[1].by = "local_analyzer.py"
           /\ IF AskScript \in n_files
              THEN /\ Len(n_launches) = 2
                   /\ n_launches[2] =
                        [script |-> "ask_question.py",
                         argv |-> <<<<"-", "-", "q", "u", "e", "s", "t", "i", "o", "n">>, args.question[1],
                                    <<"-", "-", "n", "o", "t", "e", "b", "o", "o", "k", "-", "u", "r", "l">>, args.notebook_url[1]>>,
                         by |-> "quick_query.py"]
                   /\ StatusesOf("local_analyzer.py") = StatusesOf("ask_question.py")
              ELSE /\ Len(n_launches) = 1
                   /\ StatusesOf("quick_query.py") = <<1>>

=============================================================================
